---- MODULE Spec2Model ----
(***************************************************************************)
(* A model of django_openstack/api.py: the attribute-checked wrappers      *)
(* (APIResourceWrapper, APIDictWrapper and their variants), the endpoint   *)
(* resolution url_for, the per-request client factories and the operation  *)
(* functions built on them.                                                *)
(*                                                                         *)
(* Python values are tagged records (field t): atoms, dicts, raw resource  *)
(* objects, wrappers, lists, bound methods, classes and None.  The outcome *)
(* of a call is either Return(value) or Raise(exception, argument).        *)
(***************************************************************************)
EXTENDS Integers, Sequences, FiniteSets, TLC

VARIABLES call, ret, held, log, remote

vars == <<call, ret, held, log, remote>>

(* ------------------------------ bounds --------------------------------- *)

NumSalts     == 2   \* distinct raw payloads per shape
MaxList      == 2   \* longest sequence a remote list call yields
MaxRoles     == 2   \* longest roleRefs list of a token-detail response
MaxEndpoints == 2   \* longest endpoint list of one service in a catalog

Salts == 1..NumSalts

(* ------------------------------ values --------------------------------- *)

Range(s) == {s[i] : i \in DOMAIN s}

None == [t |-> "None"]

Atom(salt, name) == [t |-> "atom", salt |-> salt, name |-> name]

Str(s) == [t |-> "str", s |-> s]

Dict(d) == [t |-> "dict", d |-> d]

List(items) == [t |-> "list", items |-> items]

Return(v) == [kind |-> "return", val |-> v]

Raise(exc, arg) == [kind |-> "raise", exc |-> exc, arg |-> arg]

(* ----------------------------- whitelists ------------------------------ *)

ResourceWrappers ==
  {"Console", "Flavor", "KeyPair", "Server", "Services", "Tenant", "Token",
   "Usage", "User"}

DictWrappers == {"Image", "ImageProperties"}

Wrappers == ResourceWrappers \cup DictWrappers

attrs(cls) ==
  CASE cls = "Console" -> <<"id", "output", "type">>
    [] cls = "Flavor" -> <<"disk", "id", "links", "name", "ram", "vcpus">>
    [] cls = "Image" ->
         <<"checksum", "created_at", "deleted", "deleted_at", "disk_format",
           "id", "is_public", "location", "name", "properties",
           "size", "status", "updated_at">>
    [] cls = "ImageProperties" ->
         <<"architecture", "image_location", "image_state", "kernel_id",
           "project_id", "ramdisk_id">>
    [] cls = "KeyPair" -> <<"fingerprint", "key_name", "private_key">>
    [] cls = "Server" ->
         <<"addresses", "attrs", "hostId", "id", "imageRef", "links",
           "metadata", "name", "private_ip", "public_ip", "status", "uuid">>
    [] cls = "Services" ->
         <<"disabled", "host", "id", "last_update", "stats", "type", "up",
           "zone">>
    [] cls = "Tenant" -> <<"id", "description", "enabled">>
    [] cls = "Token" -> <<"id", "serviceCatalog", "tenant_id", "username">>
    [] cls = "Usage" ->
         <<"begin", "instances", "stop", "tenant_id",
           "total_active_disk_size", "total_active_instances",
           "total_active_ram_size", "total_active_vcpus", "total_cpu_usage",
           "total_disk_usage", "total_hours", "total_ram_usage">>
    [] cls = "User" -> <<"email", "enabled", "id", "tenantId">>
    [] OTHER -> <<>>

Whitelist(cls) == Range(attrs(cls))

\* Names a raw payload may carry although no whitelist names them.
RawOnlyNames == {"adminPass", "get"}

\* Names the wrapper objects themselves define (instance and class
\* attributes), and two names nothing defines.
OtherNames == {"apiresource", "apidict", "attrs", "get", "__class__",
               "reboot", "missing"}

\* The names an access on a wrapper of class cls is tried with: its own
\* whitelist, and names outside it (other variants' fields among them).
Names(cls) ==
  Whitelist(cls) \cup RawOnlyNames \cup OtherNames
    \cup {"id", "properties", "architecture"}

(* --------------------------- raw payloads ------------------------------ *)

\* The class of the raw object a resource wrapper is built around.
RawClass(cls) ==
  CASE cls = "Console" -> "openstackx.extras.consoles.Console"
    [] cls = "Flavor" -> "openstackx.admin.flavors.Flavor"
    [] cls = "KeyPair" -> "openstackx.extras.keypairs.Keypair"
    [] cls = "Server" -> "openstackx.extras.server.Server"
    [] cls = "Tenant" -> "openstackx.auth.tokens.Tenant"
    [] cls = "Token" -> "openstackx.auth.tokens.Token"
    [] cls = "Usage" -> "openstackx.extras.usage.Usage"
    [] cls = "User" -> "openstackx.extras.users.User"
    [] OTHER -> "Resource"

\* The shapes of a raw payload: every whitelisted field, every whitelisted
\* field and some more, all but one whitelisted field, no field at all.
Domains(cls) ==
  {Whitelist(cls), Whitelist(cls) \cup RawOnlyNames, {}}
    \cup {Whitelist(cls) \ {n} : n \in Whitelist(cls)}

Resource(cls, D, salt) ==
  [t |-> "resource", rcls |-> RawClass(cls),
   fields |-> [n \in D |-> Atom(salt, n)]]

RawResources(cls) == {Resource(cls, D, s) : D \in Domains(cls), s \in Salts}

PropertiesDicts(salt) ==
  {Dict([n \in D |-> Atom(salt, n)]) :
     D \in {{}, Whitelist("ImageProperties"),
            Whitelist("ImageProperties") \cup RawOnlyNames,
            Whitelist("ImageProperties") \ {"kernel_id"}}}

RawDicts(cls) ==
  IF cls = "Image"
    THEN UNION {{Dict([n \in D |->
                         IF n = "properties" THEN p ELSE Atom(s, n)]) :
                    D \in Domains(cls), p \in PropertiesDicts(s)} :
                  s \in Salts}
    ELSE {Dict([n \in D |-> Atom(s, n)]) : D \in Domains(cls), s \in Salts}

Payloads(cls) ==
  IF cls \in DictWrappers THEN RawDicts(cls) ELSE RawResources(cls)

\* A short selection of payloads, for the elements of remote sequences.
ListPayloads(cls) ==
  IF cls = "Image"
    THEN {Dict([n \in Whitelist(cls) |->
                  IF n = "properties" THEN Dict([m \in {} |-> None])
                  ELSE Atom(s, n)]) : s \in Salts}
    ELSE IF cls \in DictWrappers
      THEN {Dict([n \in Whitelist(cls) |-> Atom(s, n)]) : s \in Salts}
      ELSE {Resource(cls, Whitelist(cls), s) : s \in Salts}

(* ------------------------------ wrappers ------------------------------- *)

\* APIResourceWrapper.__init__ / APIDictWrapper.__init__: the wrapper keeps
\* the one raw value it was built around (self.apiresource / self.apidict).
Wrap(cls, raw) == [t |-> "wrapper", cls |-> cls, raw |-> raw]

\* The raw resource's own __getattr__ (openstackx base Resource): the value
\* of the field of that name in the object's dictionary, AttributeError when
\* it holds none.
RawGetattr(raw, k) ==
  IF k \in DOMAIN raw.fields
    THEN Return(raw.fields[k])
    ELSE Raise("AttributeError", k)

\* A faulty variant: the whitelist is not consulted.
APIResourceWrapper_getattr_unchecked(self, attr) == RawGetattr(self.raw, attr)

\* A faulty variant: a whitelisted read hands back the raw object, not its field.
APIResourceWrapper_getattr_whole(self, attr) ==
  IF attr \in Range(attrs(self.cls))
    THEN Return(self.raw)
    ELSE Raise("AttributeError", attr)

APIResourceWrapper_getattr(self, attr) ==
  IF attr \in Range(attrs(self.cls))
    THEN RawGetattr(self.raw, attr)
    ELSE Raise("AttributeError", attr)

APIDictWrapper_getattr(self, attr) ==
  IF attr \in Range(attrs(self.cls))
    THEN IF attr \in DOMAIN self.raw.d
           THEN Return(self.raw.d[attr])
           ELSE Raise("KeyError", attr)
    ELSE Raise("AttributeError", attr)

\* A faulty variant: properties is not wrapped.
Image_getattr_raw(self, attrname) == APIDictWrapper_getattr(self, attrname)

Image_getattr(self, attrname) ==
  IF attrname = "properties"
    THEN LET r == APIDictWrapper_getattr(self, attrname)
         IN  IF r.kind = "return"
               THEN Return(Wrap("ImageProperties", r.val))
               ELSE r
    ELSE APIDictWrapper_getattr(self, attrname)

\* self.__getattr__(name): the __getattr__ of the wrapper's class.
ClassGetattr(self, name) ==
  IF self.cls = "Image" THEN Image_getattr(self, name)
  ELSE IF self.cls \in DictWrappers THEN APIDictWrapper_getattr(self, name)
  ELSE APIResourceWrapper_getattr(self, name)

APIDictWrapper_getitem(self, item) == ClassGetattr(self, item)

APIDictWrapper_get(self, item, default) ==
  LET r == ClassGetattr(self, item)
  IN  IF r.kind = "raise" /\ r.exc = "AttributeError"
        THEN Return(default)
        ELSE r

\* The attributes the wrapper instance holds in its own dictionary.
InstanceAttrs(self) ==
  IF self.cls \in DictWrappers THEN {"apidict"} ELSE {"apiresource"}

\* The attributes the wrapper's class (or object) defines.
ClassAttrs(self) ==
  IF self.cls \in DictWrappers
    THEN {"attrs", "get", "__class__"}
    ELSE {"attrs", "__class__"}

\* Python's attribute access self.name: the instance dictionary, then the
\* class, and __getattr__ only when neither defines the name.
GetAttribute(self, name) ==
  IF name \in InstanceAttrs(self) THEN Return(self.raw)
  ELSE IF name \in ClassAttrs(self)
    THEN CASE name = "attrs" ->
                Return(List([i \in DOMAIN attrs(self.cls) |->
                               Str(attrs(self.cls)[i])]))
           [] name = "get" ->
                Return([t |-> "method", name |-> "get", self |-> self])
           [] OTHER -> Return([t |-> "class", name |-> self.cls])
  ELSE ClassGetattr(self, name)

\* The LOG.debug line of a refused access.
UnknownLog(self, attr) ==
  IF attr \in Range(attrs(self.cls))
    THEN <<>>
    ELSE IF self.cls \in DictWrappers
      THEN <<[msg |-> "unknown item", attr |-> attr, cls |-> self.cls]>>
      ELSE <<[msg |-> "unknown attribute", attr |-> attr, cls |-> self.cls,
              rcls |-> self.raw.rcls]>>

\* The log of self.name: empty when __getattr__ is not reached.
AccessLog(self, name) ==
  IF name \in InstanceAttrs(self) \cup ClassAttrs(self)
    THEN <<>>
    ELSE UnknownLog(self, name)

(* ----------------------- requests and catalogs ------------------------- *)

Tokens == {"token-a", "token-b"}

ServiceNames == {"nova", "keystone", "glance"}

\* A URL "scheme://host:port/path", as its parts in the order written.
Url(host, port, path) == [t |-> "url", s |-> <<"http", host, port, path>>]

BasePort(service) ==
  CASE service = "nova" -> 8774
    [] service = "keystone" -> 5000
    [] OTHER -> 9292

\* The i-th endpoint descriptor of a service: distinct internal and admin
\* URLs.
Endpoint(service, i) ==
  [internalURL |-> Url(<<service, i>>, BasePort(service), "/internal"),
   adminURL |-> Url(<<service, i>>, BasePort(service) + 1, "/admin")]

SeqsUpTo(S, n) == UNION {[1..k -> S] : k \in 0..n}

EndpointLists(service) ==
  SeqsUpTo({Endpoint(service, i) : i \in 1..2}, MaxEndpoints)

\* Service catalogs: each service absent, or with a list of descriptors.
Catalogs ==
  UNION {{c \in [D -> UNION {EndpointLists(x) : x \in D}] :
            \A x \in D : c[x] \in EndpointLists(x)} :
         D \in SUBSET ServiceNames}

Session(token, catalog) == [token |-> token, serviceCatalog |-> catalog]

Requests == {[session |-> Session(t, c)] : t \in Tokens, c \in Catalogs}

\* The requests the operation functions are tried with: no service, and
\* every service with one or two descriptors.
OpCatalogs ==
  {[x \in {} |-> <<>>],
   [x \in ServiceNames |-> <<Endpoint(x, 1)>>],
   [x \in ServiceNames |-> <<Endpoint(x, 2), Endpoint(x, 1)>>]}

OpRequests == {[session |-> Session(t, c)] : t \in Tokens, c \in OpCatalogs}

(* --------------------------- client factory ---------------------------- *)

\* catalog[service_name][0][key]
FirstEndpoint(catalog, service_name, key) ==
  IF service_name \notin DOMAIN catalog
    THEN Raise("KeyError", service_name)
  ELSE IF Len(catalog[service_name]) = 0
    THEN Raise("IndexError", service_name)
  ELSE Return(catalog[service_name][1][key])

\* A faulty variant: the admin flag selects the wrong URL.
url_for_swapped(request, service_name, admin) ==
  LET catalog == request.session.serviceCatalog
  IN  IF admin
        THEN FirstEndpoint(catalog, service_name, "internalURL")
        ELSE FirstEndpoint(catalog, service_name, "adminURL")

url_for(request, service_name, admin) ==
  LET catalog == request.session.serviceCatalog
  IN  IF admin
        THEN FirstEndpoint(catalog, service_name, "adminURL")
        ELSE FirstEndpoint(catalog, service_name, "internalURL")

urlparse(url) ==
  [scheme |-> url.s[1], hostname |-> url.s[2], port |-> url.s[3],
   path |-> url.s[4]]

Client(api, args) == [t |-> "client", api |-> api, args |-> args]

\* Each factory yields [out |-> the client or the exception, log |-> the
\* debug line written].
compute_api(request) ==
  LET url == url_for(request, "nova", FALSE)
  IN  IF url.kind = "raise"
        THEN [out |-> url, log |-> <<>>]
        ELSE [out |-> Return(Client("openstack.compute.Compute",
                        [auth_token |-> request.session.token,
                         management_url |-> url.val])),
              log |-> <<[msg |-> "compute_api connection created",
                         token |-> request.session.token,
                         url |-> url_for(request, "nova", FALSE).val]>>]

\* A faulty variant: the account client is given the internal keystone URL.
account_api_internal(request) ==
  LET url == url_for(request, "keystone", FALSE)
  IN  IF url.kind = "raise"
        THEN [out |-> url, log |-> <<>>]
        ELSE [out |-> Return(Client("openstackx.extras.Account",
                        [auth_token |-> request.session.token,
                         management_url |-> url.val])),
              log |-> <<[msg |-> "account_api connection created",
                         token |-> request.session.token,
                         url |-> url.val]>>]

account_api(request) ==
  LET url == url_for(request, "keystone", TRUE)
  IN  IF url.kind = "raise"
        THEN [out |-> url, log |-> <<>>]
        ELSE [out |-> Return(Client("openstackx.extras.Account",
                        [auth_token |-> request.session.token,
                         management_url |-> url.val])),
              log |-> <<[msg |-> "account_api connection created",
                         token |-> request.session.token,
                         url |-> url.val]>>]

glance_api(request) ==
  LET url == url_for(request, "glance", FALSE)
  IN  IF url.kind = "raise"
        THEN [out |-> url, log |-> <<>>]
        ELSE LET o == urlparse(url.val)
             IN  [out |-> Return(Client("glance.client.Client",
                           [host |-> o.hostname, port |-> o.port])),
                  log |-> <<[msg |-> "glance_api connection created",
                             host |-> o.hostname, port |-> o.port]>>]

admin_api(request) ==
  LET url == url_for(request, "nova", TRUE)
  IN  IF url.kind = "raise"
        THEN [out |-> url, log |-> <<>>]
        ELSE [out |-> Return(Client("openstackx.admin.Admin",
                        [auth_token |-> request.session.token,
                         management_url |-> url.val])),
              log |-> <<[msg |-> "admin_api connection created",
                         token |-> request.session.token,
                         url |-> url.val]>>]

extras_api(request) ==
  LET url == url_for(request, "nova", FALSE)
  IN  IF url.kind = "raise"
        THEN [out |-> url, log |-> <<>>]
        ELSE [out |-> Return(Client("openstackx.extras.Extras",
                        [auth_token |-> request.session.token,
                         management_url |-> url.val])),
              log |-> <<[msg |-> "extras_api connection created",
                         token |-> request.session.token,
                         url |-> url.val]>>]

\* settings.OPENSTACK_KEYSTONE_URL, fixed for the process.
OPENSTACK_KEYSTONE_URL == Url(<<"keystone", 0>>, BasePort("keystone"), "/v2.0/")

auth_api ==
  [out |-> Return(Client("openstackx.auth.Auth",
             [management_url |-> OPENSTACK_KEYSTONE_URL])),
   log |-> <<[msg |-> "auth_api connection created",
              url |-> OPENSTACK_KEYSTONE_URL]>>]

PerRequestFactories ==
  {"compute_api", "account_api", "glance_api", "admin_api", "extras_api"}

Factory(api, request) ==
  CASE api = "compute_api" -> compute_api(request)
    [] api = "account_api" -> account_api(request)
    [] api = "glance_api" -> glance_api(request)
    [] api = "admin_api" -> admin_api(request)
    [] api = "extras_api" -> extras_api(request)
    [] OTHER -> auth_api

(* ------------------------- operation functions ------------------------- *)

\* Operations returning one wrapped object.
SingleOps ==
  {"console_create", "flavor_create", "flavor_get", "image_create",
   "image_get", "image_update", "keypair_create", "server_create",
   "server_get", "tenant_create", "tenant_get", "tenant_update",
   "token_create", "usage_get", "user_create", "user_get",
   "user_update_email", "user_update_password", "user_update_tenant"}

\* Operations returning a list of wrapped objects.
ListOps ==
  {"flavor_list", "flavor_list_admin", "image_list_detailed", "keypair_list",
   "server_list", "service_list", "token_list_tenants", "tenant_list",
   "usage_list", "user_list"}

DeleteOps ==
  {"flavor_delete", "image_delete", "keypair_delete", "server_delete",
   "user_delete"}

\* service_get and service_update hand back what the remote call returned.
ServiceOps == {"service_get", "service_update"}

\* The factory each operation takes its client from.
OpApi(op) ==
  CASE op \in {"console_create", "flavor_list", "flavor_list_admin",
               "keypair_create", "keypair_delete", "keypair_list",
               "server_create", "server_list", "usage_get", "usage_list"}
         -> "extras_api"
    [] op \in {"flavor_create", "flavor_delete", "service_get",
               "service_list", "service_update"} -> "admin_api"
    [] op \in {"flavor_get", "server_delete", "server_get", "server_reboot"}
         -> "compute_api"
    [] op \in {"image_all_metadata", "image_create", "image_delete",
               "image_get", "image_list_detailed", "image_update"}
         -> "glance_api"
    [] op \in {"tenant_create", "tenant_get", "tenant_list", "tenant_update",
               "user_create", "user_delete", "user_get", "user_list",
               "user_update_email", "user_update_password",
               "user_update_tenant"} -> "account_api"
    [] OTHER -> "auth_api"

\* The wrapper class the operation's code applies to the remote result.
OpWrapper(op) ==
  CASE op = "console_create" -> "Console"
    [] op \in {"flavor_create", "flavor_get", "flavor_list",
               "flavor_list_admin"} -> "Flavor"
    [] op \in {"image_create", "image_get", "image_list_detailed",
               "image_update"} -> "Image"
    [] op \in {"keypair_create", "keypair_list"} -> "KeyPair"
    [] op \in {"server_create", "server_get", "server_list"} -> "Server"
    [] op = "service_list" -> "Services"
    [] op \in {"token_get_tenant", "token_list_tenants", "tenant_create",
               "tenant_get", "tenant_list", "tenant_update"} -> "Tenant"
    [] op = "token_create" -> "Token"
    [] op \in {"usage_get", "usage_list"} -> "Usage"
    [] op \in {"user_create", "user_get", "user_list", "user_update_email",
               "user_update_password", "user_update_tenant"} -> "User"
    [] OTHER -> "none"

RemoteError == Raise("RemoteError", "remote")

\* The common course of an operation: build the client, issue the one remote
\* call, and return value (what the code makes of the remote result) unless
\* the factory or the remote call raised.
Invoke(op, request, result, value) ==
  LET f == Factory(OpApi(op), request)
  IN  IF f.out.kind = "raise"
        THEN [out |-> f.out, log |-> f.log, remote |-> <<>>]
        ELSE [out |-> IF result.kind = "raise" THEN result ELSE value,
              log |-> f.log,
              remote |-> <<[client |-> f.out.val, method |-> op]>>]

\* A faulty variant: the wrappers come out in reverse order.
WrapEach_reversed(cls, items) ==
  [i \in DOMAIN items |-> Wrap(cls, items[Len(items) + 1 - i])]

\* [Wrapper(x) for x in items]
WrapEach(cls, items) == [i \in DOMAIN items |-> Wrap(cls, items[i])]

SingleOp(op, request, result) ==
  Invoke(op, request, result,
         IF op = "image_get"
           THEN Return(Wrap(OpWrapper(op), result.val.items[1]))
           ELSE Return(Wrap(OpWrapper(op), result.val)))

ListOp(op, request, result) ==
  Invoke(op, request, result,
         Return(List(WrapEach(OpWrapper(op), result.val.items))))

DeleteOp(op, request, result) == Invoke(op, request, result, result)

ServiceOp(op, request, result) == Invoke(op, request, result, result)

\* image_dict[image['id']] = image, for each image in turn.
RECURSIVE ImageDict(_, _, _)
ImageDict(images, i, image_dict) ==
  IF i > Len(images) THEN Return([t |-> "dict", keyed |-> "id",
                                  d |-> image_dict])
  ELSE IF "id" \notin DOMAIN images[i].d THEN Raise("KeyError", "id")
  ELSE LET k == images[i].d["id"]
       IN  ImageDict(images, i + 1,
             [x \in DOMAIN image_dict \cup {k} |->
                IF x = k THEN images[i] ELSE image_dict[x]])

image_all_metadata(request, result) ==
  Invoke("image_all_metadata", request, result,
         ImageDict(result.val.items, 1, [x \in {} |-> None]))

\* str(x): an id and its string form have the same string form.
PyStr(x) == IF x.t = "str" THEN x ELSE Str(x)

\* for t in tenants: if str(t.id) == str(tenant_id): return Tenant(t)
RECURSIVE FirstTenant(_, _, _)
FirstTenant(tenants, i, tenant_id) ==
  IF i > Len(tenants) THEN Return(None)
  ELSE IF "id" \notin DOMAIN tenants[i].fields
    THEN Raise("AttributeError", "id")
  ELSE IF PyStr(tenants[i].fields["id"]) = PyStr(tenant_id)
    THEN Return(Wrap("Tenant", tenants[i]))
  ELSE FirstTenant(tenants, i + 1, tenant_id)

token_get_tenant(request, tenant_id, result) ==
  LET r == Invoke("token_get_tenant", request, result,
                  FirstTenant(result.val.items, 1, tenant_id))
  IN  IF r.out = Return(None)
        THEN [r EXCEPT !.log = r.log \o
                <<[msg |-> "Unknown tenant id", tenant_id |-> tenant_id]>>]
        ELSE r

\* openstack.compute.servers.REBOOT_HARD
REBOOT_HARD == "HARD"

Unset == "unset"

\* server = server_get(request, instance_id); return server.reboot(hardness)
server_reboot(request, hardness_arg, fetched, rebooted) ==
  LET hardness == IF hardness_arg = Unset THEN REBOOT_HARD ELSE hardness_arg
      got == SingleOp("server_get", request, fetched)
  IN  IF got.out.kind = "raise" THEN got
      ELSE LET server == got.out.val
               m == GetAttribute(server, "reboot")
           IN  IF m.kind = "raise"
                 THEN [got EXCEPT !.out = m,
                                  !.log = got.log \o AccessLog(server, "reboot")]
               ELSE IF m.val.t # "method"
                 THEN [got EXCEPT !.out = Raise("TypeError", "reboot")]
               ELSE [got EXCEPT
                       !.out = rebooted,
                       !.remote = got.remote \o
                         <<[client |-> server.raw, method |-> "reboot",
                            hardness |-> hardness]>>]

\* settings.OPENSTACK_ADMIN_TOKEN
OPENSTACK_ADMIN_TOKEN == "admin-token"

\* admin = False; for role in roleRefs: if role['roleId'] == 'Admin': ...
\* A faulty variant: the last role alone decides.
AdminFlag_last(roleRefs, i, admin) ==
  IF roleRefs = <<>> THEN admin
  ELSE roleRefs[Len(roleRefs)].roleId = "Admin"

RECURSIVE AdminFlag(_, _, _)
AdminFlag(roleRefs, i, admin) ==
  IF i > Len(roleRefs) THEN admin
  ELSE AdminFlag(roleRefs, i + 1,
                 IF roleRefs[i].roleId = "Admin" THEN TRUE ELSE admin)

\* token_info(request, token), data being the decoded response body.
token_info(token, data) ==
  LET sc == GetAttribute(token, "serviceCatalog")
  IN  IF sc.kind = "raise"
        THEN [out |-> sc, log |-> AccessLog(token, "serviceCatalog"),
              remote |-> <<>>]
      ELSE LET url == FirstEndpoint(sc.val.c, "keystone", "adminURL")
           IN  IF url.kind = "raise"
                 THEN [out |-> url, log |-> <<>>, remote |-> <<>>]
               ELSE LET o == urlparse(url.val)
                        id == GetAttribute(token, "id")
                    IN  IF id.kind = "raise"
                          THEN [out |-> id, log |-> AccessLog(token, "id"),
                                remote |-> <<>>]
                        ELSE
                          [out |-> IF data.kind = "raise" THEN data
                                   ELSE Return([t |-> "dict", d |->
                                     [tenant |-> data.val.auth.user.tenantId,
                                      user |-> data.val.auth.user.username,
                                      admin |-> AdminFlag(
                                        data.val.auth.user.roleRefs, 1,
                                        FALSE)]]),
                           log |-> <<>>,
                           remote |-> <<[client |-> [host |-> o.hostname,
                                                      port |-> o.port],
                                         method |-> "GET /v2.0/tokens/",
                                         id |-> id.val,
                                         X_AUTH_TOKEN |->
                                           OPENSTACK_ADMIN_TOKEN]>>]

(* --------------------------- the state machine ------------------------- *)

Defaults == {None, Str("default")}

Init ==
  /\ call = [op |-> "init"]
  /\ ret = Return(None)
  /\ held = None
  /\ log = <<>>
  /\ remote = <<>>

\* No call is under way: the caller of the module holds nothing.
Idle == call.op = "init"

\* A caller builds a wrapper around a raw payload.  (ImageProperties is
\* built by Image.__getattr__ alone.)
Construct ==
  /\ Idle
  /\ \E cls \in Wrappers \ {"ImageProperties"} : \E raw \in Payloads(cls) :
    /\ call' = [op |-> "construct", cls |-> cls]
    /\ ret' = Return(Wrap(cls, raw))
    /\ held' = Wrap(cls, raw)
    /\ log' = <<>>
    /\ remote' = <<>>

\* wrapper.name
AttributeAccess ==
  /\ held.t = "wrapper"
  /\ \E name \in Names(held.cls) :
       /\ call' = [op |-> "attribute", name |-> name]
       /\ ret' = GetAttribute(held, name)
       /\ log' = AccessLog(held, name)
  /\ remote' = <<>>
  /\ UNCHANGED held

\* wrapper[item]
IndexedAccess ==
  /\ held.t = "wrapper"
  /\ held.cls \in DictWrappers
  /\ \E item \in Names(held.cls) :
       /\ call' = [op |-> "getitem", name |-> item]
       /\ ret' = APIDictWrapper_getitem(held, item)
       /\ log' = UnknownLog(held, item)
  /\ remote' = <<>>
  /\ UNCHANGED held

\* wrapper.get(item, default)
GetWithDefault ==
  /\ held.t = "wrapper"
  /\ held.cls \in DictWrappers
  /\ \E item \in Names(held.cls) : \E default \in Defaults :
       /\ call' = [op |-> "get", name |-> item, default |-> default]
       /\ ret' = APIDictWrapper_get(held, item, default)
       /\ log' = UnknownLog(held, item)
  /\ remote' = <<>>
  /\ UNCHANGED held

\* The caller goes on with the wrapper the last access returned.
Descend ==
  /\ ret.kind = "return"
  /\ ret.val.t = "wrapper"
  /\ ret.val # held
  /\ held' = ret.val
  /\ call' = [op |-> "hold"]
  /\ UNCHANGED <<ret, log, remote>>

\* url_for(request, service_name, admin)
UrlFor ==
  /\ Idle
  /\ \E request \in Requests :
     \E service_name \in ServiceNames \cup {"swift"} :
     \E admin \in BOOLEAN :
       /\ call' = [op |-> "url_for", request |-> request,
                   service_name |-> service_name, admin |-> admin]
       /\ ret' = url_for(request, service_name, admin)
  /\ log' = <<>>
  /\ remote' = <<>>
  /\ UNCHANGED held

\* compute_api(request), account_api(request), glance_api(request),
\* admin_api(request), extras_api(request)
CallFactory ==
  /\ Idle
  /\ \E request \in Requests : \E api \in PerRequestFactories :
       /\ call' = [op |-> api, request |-> request]
       /\ ret' = Factory(api, request).out
       /\ log' = Factory(api, request).log
  /\ remote' = <<>>
  /\ UNCHANGED held

\* auth_api()
CallAuthApi ==
  /\ Idle
  /\ call' = [op |-> "auth_api"]
  /\ ret' = auth_api.out
  /\ log' = auth_api.log
  /\ remote' = <<>>
  /\ UNCHANGED held

\* What a remote call yields: an exception of the transport, or a result.
SingleResults(op) ==
  {RemoteError} \cup
    {Return(IF op = "image_get" THEN List(<<raw, Atom(1, "image_file")>>)
            ELSE raw) : raw \in Payloads(OpWrapper(op))}

ListResults(cls) ==
  {RemoteError} \cup
    {Return(List(items)) : items \in SeqsUpTo(ListPayloads(cls), MaxList)}

DeleteResults == {RemoteError, Return(None), Return(Atom(1, "response"))}

\* The wrapper a caller holds after a call, if the call returned one.
Held(out) ==
  IF out.kind = "return" /\ out.val.t = "wrapper" THEN out.val ELSE None

\* A call of an operation: op, request, and the outcome r of its code.
Called(c, r) ==
  /\ call' = c
  /\ ret' = r.out
  /\ log' = r.log
  /\ remote' = r.remote
  /\ held' = Held(r.out)

CallSingleOp ==
  /\ Idle
  /\ \E op \in SingleOps : \E request \in OpRequests :
     \E result \in SingleResults(op) :
       Called([op |-> op, request |-> request, result |-> result],
              SingleOp(op, request, result))

CallListOp ==
  /\ Idle
  /\ \E op \in ListOps : \E request \in OpRequests :
     \E result \in ListResults(OpWrapper(op)) :
       Called([op |-> op, request |-> request, result |-> result],
              ListOp(op, request, result))

CallDeleteOp ==
  /\ Idle
  /\ \E op \in DeleteOps : \E request \in OpRequests :
     \E result \in DeleteResults :
       Called([op |-> op, request |-> request, result |-> result],
              DeleteOp(op, request, result))

CallServiceOp ==
  /\ Idle
  /\ \E op \in ServiceOps : \E request \in OpRequests :
     \E result \in {RemoteError} \cup
                     {Return(raw) : raw \in Payloads("Services")} :
       Called([op |-> op, request |-> request, result |-> result],
              ServiceOp(op, request, result))

CallImageAllMetadata ==
  /\ Idle
  /\ \E request \in OpRequests : \E result \in ListResults("Image") :
       Called([op |-> "image_all_metadata", request |-> request,
               result |-> result],
              image_all_metadata(request, result))

CallTokenGetTenant ==
  /\ Idle
  /\ \E request \in OpRequests : \E result \in ListResults("Tenant") :
     \E tenant_id \in {Atom(s, "id") : s \in Salts} \cup {Atom(0, "id")}
                        \cup {Str(Atom(s, "id")) : s \in Salts} :
       Called([op |-> "token_get_tenant", request |-> request,
               tenant_id |-> tenant_id, result |-> result],
              token_get_tenant(request, tenant_id, result))

CallServerReboot ==
  /\ Idle
  /\ \E request \in OpRequests : \E hardness \in {Unset, "HARD", "SOFT"} :
     \E fetched \in {RemoteError} \cup
                      {Return(raw) : raw \in Payloads("Server")} :
     \E rebooted \in {RemoteError, Return(None)} :
       Called([op |-> "server_reboot", request |-> request,
               hardness |-> hardness, result |-> fetched,
               rebooted |-> rebooted],
              server_reboot(request, hardness, fetched, rebooted))

RoleIds == {"Admin", "admin", "Member"}

\* Decoded token-detail responses.
TokenDetails ==
  {[auth |-> [user |-> [tenantId |-> tenant, username |-> user,
                        roleRefs |-> roles]]] :
     tenant \in {"tenant-1", "tenant-2"}, user \in {"alice", "bob"},
     roles \in SeqsUpTo({[roleId |-> r] : r \in RoleIds}, MaxRoles)}

\* The tokens token_info is tried with: a Token wrapper whose raw object
\* carries an id and a service catalog.
InfoTokens ==
  {Wrap("Token",
        [t |-> "resource", rcls |-> RawClass("Token"),
         fields |-> [n \in Whitelist("Token") |->
                       IF n = "serviceCatalog"
                         THEN [t |-> "catalog", c |-> c]
                         ELSE Atom(1, n)]]) : c \in OpCatalogs}

CallTokenInfo ==
  /\ Idle
  /\ \E token \in InfoTokens :
     \E data \in {RemoteError} \cup {Return(d) : d \in TokenDetails} :
       /\ Called([op |-> "token_info", token |-> token, result |-> data],
                 token_info(token, data))

\* The request ends: wrappers and results are dropped.
EndRequest ==
  /\ ~Idle
  /\ call' = [op |-> "init"]
  /\ ret' = Return(None)
  /\ held' = None
  /\ log' = <<>>
  /\ remote' = <<>>

Next ==
  \/ Construct
  \/ AttributeAccess
  \/ IndexedAccess
  \/ GetWithDefault
  \/ Descend
  \/ UrlFor
  \/ CallFactory
  \/ CallAuthApi
  \/ CallSingleOp
  \/ CallListOp
  \/ CallDeleteOp
  \/ CallServiceOp
  \/ CallImageAllMetadata
  \/ CallTokenGetTenant
  \/ CallServerReboot
  \/ CallTokenInfo
  \/ EndRequest

Spec == Init /\ [][Next]_vars

(* ------------------------------ properties ----------------------------- *)

Accessed == held.t = "wrapper" /\ call.op \in {"attribute", "getitem", "get"}

\* The raw mapping of names to values a wrapper was built around.
RawFields(w) == IF w.cls \in DictWrappers THEN w.raw.d ELSE w.raw.fields

\* C1, as stated: reading a name outside the wrapper's whitelist, by
\* attribute access or by indexed access, fails with AttributeError(name),
\* whatever the name.
C1_AnyUnknownNameFails ==
  (Accessed /\ call.op \in {"attribute", "getitem"}
     /\ call.name \notin Whitelist(held.cls))
    => ret = Raise("AttributeError", call.name)

\* The names Python finds on the wrapper object itself.
OwnAttributes(w) ==
  IF w.cls \in {"Image", "ImageProperties"}
    THEN {"apidict", "attrs", "get", "__class__"}
    ELSE {"apiresource", "attrs", "__class__"}

\* C1, amended: reading a name outside the wrapper's whitelist fails with
\* AttributeError(name), after the refusal is logged, for every name by
\* indexed access, and by attribute access for every name that is not an
\* attribute of the wrapper object itself (apiresource or apidict, attrs,
\* get, __class__); those Python resolves without calling __getattr__, and
\* they yield a value, apiresource and apidict the raw payload.
C1_UnknownFieldFails ==
  /\ (Accessed /\ call.op \in {"attribute", "getitem"}
        /\ call.name \notin Whitelist(held.cls)
        /\ (call.op = "attribute" => call.name \notin OwnAttributes(held)))
       => /\ ret = Raise("AttributeError", call.name)
          /\ Len(log) = 1
          /\ log[1].attr = call.name
          /\ log[1].cls = held.cls
  /\ (Accessed /\ call.op = "attribute" /\ call.name \in OwnAttributes(held))
       => /\ ret.kind = "return"
          /\ log = <<>>
          /\ call.name \in {"apiresource", "apidict"} => ret.val = held.raw

\* C1 witness: the raw object holds a field the whitelist does not name, and
\* reading it on the wrapper is refused.
C1_Witness ==
  /\ Accessed
  /\ call.op = "attribute"
  /\ held.cls = "Server"
  /\ call.name = "adminPass"
  /\ "adminPass" \in DOMAIN held.raw.fields
  /\ ret.kind = "raise"

C3_GetNeverRaises ==
  (Accessed /\ call.op = "get")
    => /\ ret.kind = "return"
       /\ IF call.name \in Whitelist(held.cls)
               /\ call.name \in DOMAIN held.raw.d
            THEN IF held.cls = "Image" /\ call.name = "properties"
                   THEN ret.val.raw = held.raw.d[call.name]
                   ELSE ret.val = held.raw.d[call.name]
            ELSE ret.val = call.default

PropertiesRead ==
  /\ Accessed
  /\ held.cls = "Image"
  /\ call.name = "properties"
  /\ "properties" \in DOMAIN held.raw.d

\* Every path by which properties is read on an Image whose raw mapping
\* holds it yields an ImageProperties wrapper around the raw sub-mapping.
PropertiesWrapped ==
  PropertiesRead
    => ret = Return([t |-> "wrapper", cls |-> "ImageProperties",
                     raw |-> held.raw.d["properties"]])

\* C4, as stated: properties always comes back as an ImageProperties
\* wrapper, and that wrapper yields a value for no name outside the
\* ImageProperties whitelist.
C4_NestedExposesOnlyWhitelist ==
  /\ PropertiesWrapped
  /\ (Accessed /\ held.cls = "ImageProperties"
        /\ call.op \in {"attribute", "getitem"}
        /\ call.name \notin Whitelist("ImageProperties"))
       => ret.kind = "raise"

\* C4, amended: properties read on an Image by attribute access, indexed
\* access or get always comes back as an ImageProperties wrapper around the
\* raw sub-mapping, also an empty one; the nested wrapper resolves fields by
\* the ImageProperties whitelist alone, and only its own attributes
\* (apidict, attrs, get, __class__) are readable besides.
C4_PropertiesWrapped ==
  /\ PropertiesWrapped
  /\ (Accessed /\ held.cls = "ImageProperties"
        /\ call.name \notin Whitelist("ImageProperties"))
       => CASE call.op = "getitem" ->
                 ret = Raise("AttributeError", call.name)
            [] call.op = "get" -> ret = Return(call.default)
            [] OTHER ->
                 \/ ret = Raise("AttributeError", call.name)
                 \/ call.name \in OwnAttributes(held) /\ ret.kind = "return"

\* C4 witness: get('properties') on an Image whose raw properties mapping is
\* empty returns a wrapper around that empty mapping.
C4_Witness ==
  /\ PropertiesRead
  /\ call.op = "get"
  /\ DOMAIN held.raw.d["properties"].d = {}
  /\ ret.kind = "return"
  /\ ret.val.t = "wrapper"

\* C5: url_for returns the adminURL of the first endpoint descriptor of the
\* service when admin is set and its internalURL otherwise, whatever
\* descriptors follow; for a service the catalog does not name it fails with
\* a lookup error (KeyError) and returns no URL.
C5_UrlForFirstEndpoint ==
  call.op = "url_for"
    => LET catalog == call.request.session.serviceCatalog
           name == call.service_name
       IN  IF name \notin DOMAIN catalog
             THEN ret = [kind |-> "raise", exc |-> "KeyError", arg |-> name]
           ELSE IF catalog[name] = <<>>
             THEN ret.kind = "raise" /\ ret.exc = "IndexError"
           ELSE /\ ret.kind = "return"
                /\ ret.val = IF call.admin
                               THEN Head(catalog[name]).adminURL
                               ELSE Head(catalog[name]).internalURL

\* C5 witness: a service with two different descriptors is resolved with
\* admin set.
C5_Witness ==
  /\ call.op = "url_for"
  /\ call.admin
  /\ call.service_name \in DOMAIN call.request.session.serviceCatalog
  /\ Len(call.request.session.serviceCatalog[call.service_name]) = 2
  /\ call.request.session.serviceCatalog[call.service_name][1]
       # call.request.session.serviceCatalog[call.service_name][2]
  /\ ret.kind = "return"

\* The wrapper class each list operation is to apply.
ListWrapperOf(op) ==
  CASE op \in {"flavor_list", "flavor_list_admin"} -> "Flavor"
    [] op = "image_list_detailed" -> "Image"
    [] op = "keypair_list" -> "KeyPair"
    [] op = "server_list" -> "Server"
    [] op = "service_list" -> "Services"
    [] op \in {"tenant_list", "token_list_tenants"} -> "Tenant"
    [] op = "usage_list" -> "Usage"
    [] OTHER -> "User"

\* The call got its client and the remote call returned.
RemoteReturned ==
  /\ call.result.kind = "return"
  /\ Len(remote) >= 1

\* C6: a list operation whose remote call yields N raw payloads returns
\* exactly N wrappers in the same order, the i-th around the i-th payload,
\* for every N from 0 on.
C6_ListOrderPreserved ==
  (call.op \in {"flavor_list", "flavor_list_admin", "image_list_detailed",
                "keypair_list", "server_list", "service_list", "tenant_list",
                "token_list_tenants", "usage_list", "user_list"}
     /\ RemoteReturned)
    => /\ ret.kind = "return"
       /\ ret.val.t = "list"
       /\ Len(ret.val.items) = Len(call.result.val.items)
       /\ \A i \in 1..Len(call.result.val.items) :
            ret.val.items[i] = [t |-> "wrapper", cls |-> ListWrapperOf(call.op),
                                raw |-> call.result.val.items[i]]

\* C6 witness: a list operation returned two wrappers around two different
\* payloads.
C6_Witness ==
  /\ call.op = "server_list"
  /\ RemoteReturned
  /\ Len(call.result.val.items) = 2
  /\ call.result.val.items[1] # call.result.val.items[2]
  /\ ret.kind = "return"
  /\ Len(ret.val.items) = 2

\* C7: token_info's admin flag is true exactly when some role of the
\* response's roleRefs is literally "Admin", and false otherwise, an empty
\* role list included; tenant and user are the response's tenantId and
\* username.
C7_AdminFlag ==
  (call.op = "token_info" /\ ret.kind = "return")
    => LET user == call.result.val.auth.user
       IN  /\ ret.val.d.admin =
                (\E i \in DOMAIN user.roleRefs :
                   user.roleRefs[i].roleId = "Admin")
           /\ ret.val.d.tenant = user.tenantId
           /\ ret.val.d.user = user.username

\* C7 witness: the role "Admin" is followed by another role, and the flag is
\* true.
C7_Witness ==
  /\ call.op = "token_info"
  /\ ret.kind = "return"
  /\ call.result.val.auth.user.roleRefs =
       <<[roleId |-> "Admin"], [roleId |-> "admin"]>>
  /\ ret.val.d.admin

\* A wrapper, or a list of wrappers.
IsWrapped(v) ==
  \/ v.t = "wrapper"
  \/ v.t = "list" /\ \A i \in DOMAIN v.items : v.items[i].t = "wrapper"

\* C8: every get, list, create and update operation returns its remote
\* result wrapped (each element of a sequence wrapped); only the delete
\* operations return the raw result of the remote call.
C8_OnlyDeletesReturnRaw ==
  /\ (call.op \in SingleOps \cup ListOps \cup ServiceOps
                    \cup {"image_all_metadata"}
        /\ ret.kind = "return")
       => IsWrapped(ret.val)
  /\ (call.op \in DeleteOps /\ ret.kind = "return") => ret = call.result

\* C9: whenever server_reboot's fetch of the server succeeds, the reboot is
\* invoked on the fetched server exactly once, after the fetch, with the
\* given hardness (hard when none is given), and its result is returned.
C9_RebootInvoked ==
  (call.op = "server_reboot" /\ RemoteReturned)
    => /\ Len(remote) = 2
       /\ remote[1].method = "server_get"
       /\ remote[2].method = "reboot"
       /\ remote[2].client = call.result.val
       /\ remote[2].hardness =
            (IF call.hardness = "unset" THEN "HARD" ELSE call.hardness)
       /\ ret = call.rebooted

\* The service and the endpoint kind each factory is to resolve.
FactoryService(api) ==
  CASE api = "account_api" -> "keystone"
    [] api = "glance_api" -> "glance"
    [] OTHER -> "nova"

FactoryAdmin(api) == api \in {"account_api", "admin_api"}

\* The URL of the catalog of the call's request that api is to resolve.
ExpectedUrl ==
  LET e == Head(call.request.session.serviceCatalog[FactoryService(call.op)])
  IN  IF FactoryAdmin(call.op) THEN e.adminURL ELSE e.internalURL

BoundToUrlAndToken ==
  /\ DOMAIN ret.val.args = {"auth_token", "management_url"}
  /\ ret.val.args.auth_token = call.request.session.token
  /\ ret.val.args.management_url = ExpectedUrl
  /\ Len(log) = 1
  /\ log[1].url = ret.val.args.management_url
  /\ log[1].token = call.request.session.token

FactoryReturned ==
  /\ call.op \in {"compute_api", "account_api", "glance_api", "admin_api",
                  "extras_api"}
  /\ ret.kind = "return"

\* C10, as stated: every per-request factory returns a client bound to the
\* resolved endpoint URL (admin for account_api and admin_api, internal for
\* the others) and to the request's token, and logs that URL.
C10_EveryClientHasToken == FactoryReturned => BoundToUrlAndToken

\* C10, amended: compute_api, account_api, admin_api and extras_api return a
\* client bound to the resolved endpoint URL (admin for account_api and
\* admin_api, internal for the others) and to the request's token, and log
\* that URL; glance_api returns a client bound only to the host and port of
\* the internal glance URL, without the token, and logs that host and port.
C10_ClientBinding ==
  FactoryReturned
    => IF call.op = "glance_api"
         THEN /\ DOMAIN ret.val.args = {"host", "port"}
              /\ ret.val.args.host = ExpectedUrl.s[2]
              /\ ret.val.args.port = ExpectedUrl.s[3]
              /\ Len(log) = 1
              /\ log[1].host = ret.val.args.host
              /\ log[1].port = ret.val.args.port
         ELSE BoundToUrlAndToken

\* C10 witness: account_api built its client from a catalog whose keystone
\* service has two descriptors.
C10_Witness ==
  /\ FactoryReturned
  /\ call.op = "account_api"
  /\ Len(call.request.session.serviceCatalog["keystone"]) = 2
  /\ ret.val.args.management_url =
       call.request.session.serviceCatalog["keystone"][1].adminURL

====
